---- MODULE Spec2Model ----
(***************************************************************************)
(* The time-shift ring buffer of RadioShift (audio_buffer.TimeShiftBuffer) *)
(* and the audio callback that drives it (main.FMRadio._audio_callback).   *)
(* One frame is modelled as one integer (the sample of a single channel).  *)
(* The producer supplies a ramp, 1, 2, 3, ..., so that a stored frame      *)
(* tells which frame of the stream it is and 0 is a never-written slot or  *)
(* a frame of silence.                                                     *)
(***************************************************************************)
EXTENDS Integers, Sequences, FiniteSets, TLC

\* Frames the producer supplies in one run beyond one filling of the buffer.
MaxOver == 6

\* The value of pause_position while no pause is in force.
None == -1

\* A seek far larger than any buffer of the model.
HugeSeek == 10000000

\* The constructor's arguments: sample_rate 10 gives a live delay of one
\* frame and twenty slots, sample_rate 3 gives no live delay and six slots.
Configs ==
    { [past_seconds |-> 1, future_seconds |-> 1, sample_rate |-> 10, channels |-> 1],
      [past_seconds |-> 1, future_seconds |-> 1, sample_rate |-> 3, channels |-> 1] }

VARIABLES
    sample_rate,        \* TimeShiftBuffer.sample_rate
    buffer_size,        \* TimeShiftBuffer.buffer_size (N)
    live_delay_frames,  \* TimeShiftBuffer.live_delay_frames
    past_frames,        \* TimeShiftBuffer.past_frames
    buffer,             \* TimeShiftBuffer.buffer, indexed 0 .. N-1
    write_pos,
    read_pos,
    stored_frames,
    playback_paused,
    pause_position,
    time_shift,
    cumulative_shift,
    nextSample,         \* the next value of the producer's ramp
    ret,                \* what the most recent call returned or raised
    lastOp,             \* the most recent call: its name and its argument
    cb_pc,              \* where the audio callback stands
    cb_frames,          \* the block size of the callback in progress
    pauseW,             \* frames written since pause(), no control call since
    pausePoint,         \* where the last read had ended when pause() was called
    awaiting,           \* resume() was called and no audible read followed yet
    shiftFromResume,    \* time_shift was last set by resume()
    scen,               \* "fresh", "back", "backread" or "other"
    seekK,              \* the k of the move_backward(k) of scen "back"
    shiftBefore,        \* time_shift before the move_backward just made
    noControl,          \* no control method has been called yet
    unseeked,           \* the shift and pause position, had no seek been made in this pause
    ctor_args,          \* the arguments TimeShiftBuffer was constructed with
    built,              \* "ok" when the constructor returned, else the error raised
    lock,               \* the thread that holds TimeShiftBuffer.lock, or "free"
    pc,                 \* where each thread stands inside a buffer method
    frequency,          \* Radio.frequency, in tenths of MHz
    saved_frequency,    \* the frequency file of FrequencyPersistence, or None
    stabilization_timer, \* Radio.stabilization_timer: the Timer last started, or None
    timers,             \* the threading.Timer threads started so far, oldest first
    rotary              \* where the rotary thread stands inside adjust_frequency

config == <<sample_rate, buffer_size, live_delay_frames, past_frames>>
fields == <<buffer, write_pos, read_pos, stored_frames, playback_paused,
            pause_position, time_shift, cumulative_shift>>
apiHistory == <<pauseW, shiftFromResume, scen, seekK, shiftBefore, noControl>>
history == <<pausePoint, awaiting, apiHistory>>
construction == <<ctor_args, built>>
locking == <<lock, pc>>
tuning == <<stabilization_timer, timers, rotary>>
radio == <<frequency, saved_frequency, tuning>>
elsewhere == <<construction, locking, radio, unseeked>>
vars == <<config, fields, nextSample, ret, lastOp, cb_pc, cb_frames, history, elsewhere>>

----------------------------------------------------------------------------
\* Python's and numpy's pieces

Min(a, b) == IF a < b THEN a ELSE b
Max(a, b) == IF a > b THEN a ELSE b

\* int(0.1 * sample_rate)
LiveDelayOf(rate) == IF rate >= 0 THEN rate \div 10 ELSE 0 - ((0 - rate) \div 10)

\* np.zeros((frames, channels)): frames frames of silence
Zeros(frames) == [i \in 1 .. frames |-> 0]

\* buffer[lo:hi] of an array of n slots, as numpy slices: hi is cut at n
Slice(buf, lo, hi, n) == [i \in 1 .. (Min(hi, n) - lo) |-> buf[lo + i - 1]]

\* The ramp the producer hands to write: frames_to_write values from nextSample on
Ramp(from, frames) == [i \in 1 .. frames |-> from + i - 1]

\* What a call that returns nothing leaves in ret
NoValue == [kind |-> "None", frames |-> <<>>]
Frames(out) == [kind |-> "frames", frames |-> out]
ValueError == [kind |-> "ValueError", frames |-> <<>>]

\* The record of a call: the method and the frame count it was given
Call(op, n) == [op |-> op, n |-> n]

----------------------------------------------------------------------------
\* TimeShiftBuffer.__init__

InitBuffer(c) ==
    /\ sample_rate = c.sample_rate
    /\ buffer_size = (c.past_seconds + c.future_seconds) * c.sample_rate
    /\ buffer = [i \in 0 .. (c.past_seconds + c.future_seconds) * c.sample_rate - 1 |-> 0]
    /\ write_pos = 0
    /\ read_pos = 0
    /\ live_delay_frames = LiveDelayOf(c.sample_rate)
    /\ stored_frames = 0
    /\ playback_paused = FALSE
    /\ pause_position = None
    /\ time_shift = 0
    /\ cumulative_shift = 0
    /\ past_frames = c.past_seconds * c.sample_rate

\* The threads that call the buffer
Threads == {"producer", "consumer", "control", "display"}

\* RadioConfig.DEFAULT_FREQUENCY, in tenths of MHz
DEFAULT_FREQUENCY == 999

\* Radio.__init__: the default frequency and no stabilization timer; no
\* frequency file yet, the rotary thread outside adjust_frequency
InitRadio ==
    /\ frequency = DEFAULT_FREQUENCY
    /\ saved_frequency = None
    /\ stabilization_timer = None
    /\ timers = <<>>
    /\ rotary = [pc |-> "idle", delta |-> 0, new_freq |-> None]

\* The buffer built from the arguments c, no thread inside it; the radio as
\* Radio.__init__ leaves it and no frequency file yet
InitElsewhere(c) ==
    /\ ctor_args = c
    /\ built = "ok"
    /\ lock = "free"
    /\ pc = [t \in Threads |-> "idle"]
    /\ InitRadio

\* No pause in force
NoShadow == [time_shift |-> None, pause_position |-> None]

InitHistory ==
    /\ pauseW = None
    /\ pausePoint = None
    /\ awaiting = FALSE
    /\ shiftFromResume = FALSE
    /\ scen = "fresh"
    /\ seekK = None
    /\ shiftBefore = None
    /\ noControl = TRUE
    /\ unseeked = NoShadow

Init ==
    /\ \E c \in Configs : InitBuffer(c) /\ InitElsewhere(c)
    /\ nextSample = 1
    /\ ret = NoValue
    /\ lastOp = Call("init", 0)
    /\ cb_pc = "idle"
    /\ cb_frames = 0
    /\ InitHistory

----------------------------------------------------------------------------
\* TimeShiftBuffer.write: the copy into the ring, one or two ranges

\* WrittenBuffer as it would be if the second range of a wrapping write were dropped
WrittenBuffer_no_second_copy(data) ==
    LET frames_to_write == Len(data)
        first_part == buffer_size - write_pos
    IN  IF write_pos + frames_to_write > buffer_size
        THEN [i \in 0 .. buffer_size - 1 |->
                IF i >= write_pos THEN data[i - write_pos + 1]
                ELSE buffer[i]]
        ELSE [i \in 0 .. buffer_size - 1 |->
                IF write_pos <= i /\ i < write_pos + frames_to_write
                THEN data[i - write_pos + 1]
                ELSE buffer[i]]

WrittenBuffer(data) ==
    LET frames_to_write == Len(data)
        first_part == buffer_size - write_pos
    IN  IF write_pos + frames_to_write > buffer_size
        THEN [i \in 0 .. buffer_size - 1 |->
                IF i < frames_to_write - first_part THEN data[first_part + i + 1]
                ELSE IF i >= write_pos THEN data[i - write_pos + 1]
                ELSE buffer[i]]
        ELSE [i \in 0 .. buffer_size - 1 |->
                IF write_pos <= i /\ i < write_pos + frames_to_write
                THEN data[i - write_pos + 1]
                ELSE buffer[i]]

WrittenPos(frames_to_write) ==
    IF write_pos + frames_to_write > buffer_size
    THEN frames_to_write - (buffer_size - write_pos)
    ELSE (write_pos + frames_to_write) % buffer_size

\* write as it would be if the live delay were left out of the recomputation
write_no_delay(data) ==
    /\ buffer' = WrittenBuffer(data)
    /\ write_pos' = WrittenPos(Len(data))
    /\ stored_frames' = Min(stored_frames + Len(data), buffer_size)
    /\ read_pos' = IF ~playback_paused /\ pause_position = None
                   THEN (WrittenPos(Len(data)) - time_shift) % buffer_size
                   ELSE read_pos
    /\ UNCHANGED <<playback_paused, pause_position, time_shift, cumulative_shift>>

\* write as it would be if the read position followed the writer during a pause
write_tracking_paused(data) ==
    /\ buffer' = WrittenBuffer(data)
    /\ write_pos' = WrittenPos(Len(data))
    /\ stored_frames' = Min(stored_frames + Len(data), buffer_size)
    /\ read_pos' = (WrittenPos(Len(data)) - live_delay_frames - time_shift) % buffer_size
    /\ UNCHANGED <<playback_paused, pause_position, time_shift, cumulative_shift>>

\* write as it would be if the stored count were that of the last block alone
write_counting_last_block(data) ==
    /\ buffer' = WrittenBuffer(data)
    /\ write_pos' = WrittenPos(Len(data))
    /\ stored_frames' = Min(Len(data), buffer_size)
    /\ read_pos' = IF ~playback_paused /\ pause_position = None
                   THEN (WrittenPos(Len(data)) - live_delay_frames - time_shift) % buffer_size
                   ELSE read_pos
    /\ UNCHANGED <<playback_paused, pause_position, time_shift, cumulative_shift>>

write(data) ==
    /\ buffer' = WrittenBuffer(data)
    /\ write_pos' = WrittenPos(Len(data))
    /\ stored_frames' = Min(stored_frames + Len(data), buffer_size)
    /\ read_pos' = IF ~playback_paused /\ pause_position = None
                   THEN (WrittenPos(Len(data)) - live_delay_frames - time_shift) % buffer_size
                   ELSE read_pos
    /\ UNCHANGED <<playback_paused, pause_position, time_shift, cumulative_shift>>

\* ReadOutput as it would be if the second range of a wrapping read were not copied
ReadOutput_no_second_copy(frames) ==
    LET read_from == read_pos
        first_part == buffer_size - read_from
    IN  IF read_from + frames > buffer_size
        THEN Frames(Slice(buffer, read_from, buffer_size, buffer_size)
                    \o Zeros(frames - first_part))
        ELSE Frames(Slice(buffer, read_from, read_from + frames, buffer_size))

\* TimeShiftBuffer.read: the value returned (or the error raised) when not paused
ReadOutput(frames) ==
    LET read_from == read_pos
        first_part == buffer_size - read_from
        tail == Slice(buffer, 0, frames - first_part, buffer_size)
    IN  IF read_from + frames > buffer_size
        THEN IF Len(tail) = frames - first_part
             THEN Frames(Slice(buffer, read_from, buffer_size, buffer_size) \o tail)
             ELSE IF Len(tail) = 1
             THEN Frames(Slice(buffer, read_from, buffer_size, buffer_size)
                         \o [i \in 1 .. frames - first_part |-> tail[1]])
             ELSE ValueError
        ELSE Frames(Slice(buffer, read_from, read_from + frames, buffer_size))

\* read as it would be if a paused read skipped the frames it replaces by silence
read_skipping(frames) ==
    IF playback_paused
    THEN /\ ret' = Frames(Zeros(frames))
         /\ read_pos' = (read_pos + frames) % buffer_size
         /\ UNCHANGED <<buffer, write_pos, stored_frames, playback_paused,
                        pause_position, time_shift, cumulative_shift>>
    ELSE /\ ret' = ReadOutput(frames)
         /\ read_pos' = IF ReadOutput(frames).kind = "frames"
                        THEN (read_pos + frames) % buffer_size
                        ELSE read_pos
         /\ UNCHANGED <<buffer, write_pos, stored_frames, playback_paused,
                        pause_position, time_shift, cumulative_shift>>

\* read as it would be if the read position were advanced without wrapping
read_no_wrap(frames) ==
    IF playback_paused
    THEN /\ ret' = Frames(Zeros(frames))
         /\ UNCHANGED fields
    ELSE /\ ret' = ReadOutput(frames)
         /\ read_pos' = IF ReadOutput(frames).kind = "frames"
                        THEN read_pos + frames
                        ELSE read_pos
         /\ UNCHANGED <<buffer, write_pos, stored_frames, playback_paused,
                        pause_position, time_shift, cumulative_shift>>

\* read as it would be if the frames read were consumed, as from a queue
read_consuming(frames) ==
    IF playback_paused
    THEN /\ ret' = Frames(Zeros(frames))
         /\ UNCHANGED fields
    ELSE /\ ret' = ReadOutput(frames)
         /\ read_pos' = IF ReadOutput(frames).kind = "frames"
                        THEN (read_pos + frames) % buffer_size
                        ELSE read_pos
         /\ stored_frames' = Max(0, stored_frames - frames)
         /\ UNCHANGED <<buffer, write_pos, playback_paused,
                        pause_position, time_shift, cumulative_shift>>

read(frames) ==
    IF playback_paused
    THEN /\ ret' = Frames(Zeros(frames))
         /\ UNCHANGED fields
    ELSE /\ ret' = ReadOutput(frames)
         /\ read_pos' = IF ReadOutput(frames).kind = "frames"
                        THEN (read_pos + frames) % buffer_size
                        ELSE read_pos
         /\ UNCHANGED <<buffer, write_pos, stored_frames, playback_paused,
                        pause_position, time_shift, cumulative_shift>>

\* reset_to_live as it would be if it left the pause in force
reset_to_live_keeping_pause ==
    /\ time_shift' = 0
    /\ cumulative_shift' = 0
    /\ read_pos' = (write_pos - live_delay_frames) % buffer_size
    /\ UNCHANGED <<buffer, write_pos, stored_frames, playback_paused, pause_position>>

reset_to_live ==
    /\ time_shift' = 0
    /\ cumulative_shift' = 0
    /\ playback_paused' = FALSE
    /\ pause_position' = None
    /\ read_pos' = (write_pos - live_delay_frames) % buffer_size
    /\ UNCHANGED <<buffer, write_pos, stored_frames>>

pause ==
    /\ playback_paused' = TRUE
    /\ pause_position' = (write_pos - live_delay_frames - time_shift) % buffer_size
    /\ UNCHANGED <<buffer, write_pos, read_pos, stored_frames, time_shift,
                   cumulative_shift>>

\* resume as it would be if the pause position were left in place
resume_keeping_position ==
    /\ IF pause_position # None
       THEN /\ read_pos' = pause_position
            /\ time_shift' = (write_pos - pause_position) % buffer_size
            /\ cumulative_shift' = (write_pos - pause_position) % buffer_size
       ELSE UNCHANGED <<read_pos, time_shift, cumulative_shift>>
    /\ playback_paused' = FALSE
    /\ UNCHANGED <<buffer, write_pos, stored_frames, pause_position>>

\* resume as it would be if the reported delay were not updated
resume_stale_delay ==
    /\ IF pause_position # None
       THEN /\ read_pos' = pause_position
            /\ time_shift' = (write_pos - pause_position) % buffer_size
            /\ cumulative_shift' = cumulative_shift
       ELSE UNCHANGED <<read_pos, time_shift, cumulative_shift>>
    /\ playback_paused' = FALSE
    /\ pause_position' = None
    /\ UNCHANGED <<buffer, write_pos, stored_frames>>

resume ==
    /\ IF pause_position # None
       THEN /\ read_pos' = pause_position
            /\ time_shift' = (write_pos - pause_position) % buffer_size
            /\ cumulative_shift' = (write_pos - pause_position) % buffer_size
       ELSE UNCHANGED <<read_pos, time_shift, cumulative_shift>>
    /\ playback_paused' = FALSE
    /\ pause_position' = None
    /\ UNCHANGED <<buffer, write_pos, stored_frames>>

\* move_backward as it would be without the clamp at the retained history
move_backward_unclamped(frames) ==
    LET shift == time_shift + frames
    IN  /\ time_shift' = shift
        /\ cumulative_shift' = shift
        /\ read_pos' = IF ~playback_paused
                       THEN (write_pos - live_delay_frames - shift) % buffer_size
                       ELSE read_pos
        /\ UNCHANGED <<buffer, write_pos, stored_frames, playback_paused,
                       pause_position>>

\* move_backward as it would be if the seek did not move the read position
move_backward_no_recompute(frames) ==
    LET available_frames == Min(stored_frames, past_frames)
        shift == Min(available_frames, time_shift + frames)
    IN  /\ time_shift' = shift
        /\ cumulative_shift' = shift
        /\ UNCHANGED <<buffer, write_pos, read_pos, stored_frames, playback_paused,
                       pause_position>>

\* move_backward as it would be if only the stored frames limited the shift
move_backward_stored_only(frames) ==
    LET available_frames == stored_frames
        shift == Min(available_frames, time_shift + frames)
    IN  /\ time_shift' = shift
        /\ cumulative_shift' = shift
        /\ read_pos' = IF ~playback_paused
                       THEN (write_pos - live_delay_frames - shift) % buffer_size
                       ELSE read_pos
        /\ UNCHANGED <<buffer, write_pos, stored_frames, playback_paused,
                       pause_position>>

move_backward(frames) ==
    LET available_frames == Min(stored_frames, past_frames)
        shift == Min(available_frames, time_shift + frames)
    IN  /\ time_shift' = shift
        /\ cumulative_shift' = shift
        /\ read_pos' = IF ~playback_paused
                       THEN (write_pos - live_delay_frames - shift) % buffer_size
                       ELSE read_pos
        /\ UNCHANGED <<buffer, write_pos, stored_frames, playback_paused,
                       pause_position>>

\* move_forward as it would be without the floor at zero
move_forward_unclamped(frames) ==
    LET new_shift == time_shift - frames
    IN  /\ time_shift' = new_shift
        /\ cumulative_shift' = new_shift
        /\ read_pos' = IF ~playback_paused
                       THEN (write_pos - live_delay_frames - new_shift) % buffer_size
                       ELSE read_pos
        /\ UNCHANGED <<buffer, write_pos, stored_frames, playback_paused,
                       pause_position>>

\* move_forward as it would be if any forward seek returned to the live edge
move_forward_to_live(frames) ==
    LET new_shift == 0
    IN  /\ time_shift' = new_shift
        /\ cumulative_shift' = new_shift
        /\ read_pos' = IF ~playback_paused
                       THEN (write_pos - live_delay_frames - new_shift) % buffer_size
                       ELSE read_pos
        /\ UNCHANGED <<buffer, write_pos, stored_frames, playback_paused,
                       pause_position>>

move_forward(frames) ==
    LET new_shift == Max(0, time_shift - frames)
    IN  /\ time_shift' = new_shift
        /\ cumulative_shift' = new_shift
        /\ read_pos' = IF ~playback_paused
                       THEN (write_pos - live_delay_frames - new_shift) % buffer_size
                       ELSE read_pos
        /\ UNCHANGED <<buffer, write_pos, stored_frames, playback_paused,
                       pause_position>>

\* TimeShiftBuffer.is_live
is_live == time_shift = 0 /\ ~playback_paused

----------------------------------------------------------------------------
\* The calls a client of the buffer can make, in any order.  Each is one step:
\* the method holds the lock from its first line to its last.

\* Block lengths are counted in half seconds of audio, the unit of the seek
\* buttons: int(SAMPLE_RATE * 0.5) frames.
HalfSecond == sample_rate \div 2
WriteLens == {0, HalfSecond, sample_rate, buffer_size}
ReadLens == {0, HalfSecond, sample_rate, buffer_size, 2 * buffer_size}
SeekLens == {0, HalfSecond, sample_rate, HugeSeek}

Write(n) ==
    /\ nextSample - 1 + n <= buffer_size + MaxOver
    /\ write(Ramp(nextSample, n))
    /\ nextSample' = nextSample + n
    /\ ret' = NoValue
    /\ lastOp' = Call("write", n)
    /\ pauseW' = IF pauseW # None THEN (pauseW + n) % buffer_size ELSE None
    /\ scen' = IF scen = "fresh" /\ nextSample - 1 + n <= buffer_size
               THEN "fresh" ELSE "other"
    /\ seekK' = None
    /\ shiftBefore' = None
    /\ UNCHANGED <<config, elsewhere, cb_pc, cb_frames, pausePoint, awaiting, shiftFromResume,
                   noControl>>

Read(n) ==
    /\ read(n)
    /\ lastOp' = Call("read", n)
    /\ scen' = IF scen = "back" THEN "backread" ELSE "other"
    /\ seekK' = IF scen = "back" THEN seekK ELSE None
    /\ shiftBefore' = None
    /\ UNCHANGED <<config, elsewhere, nextSample, cb_pc, cb_frames, pauseW, pausePoint, awaiting,
                   shiftFromResume, noControl>>

Pause ==
    /\ pause
    /\ ret' = NoValue
    /\ lastOp' = Call(IF playback_paused THEN "pause_again" ELSE "pause", 0)
    /\ pauseW' = IF playback_paused THEN None ELSE 0
    /\ scen' = "other"
    /\ seekK' = None
    /\ shiftBefore' = None
    /\ noControl' = FALSE
    /\ UNCHANGED <<config, elsewhere, nextSample, cb_pc, cb_frames, pausePoint, awaiting,
                   shiftFromResume>>

Resume ==
    /\ resume
    /\ ret' = NoValue
    /\ lastOp' = Call("resume", 0)
    /\ pauseW' = None
    /\ shiftFromResume' = IF pause_position # None THEN TRUE ELSE shiftFromResume
    /\ scen' = "other"
    /\ seekK' = None
    /\ shiftBefore' = None
    /\ noControl' = FALSE
    /\ UNCHANGED <<config, elsewhere, nextSample, cb_pc, cb_frames, pausePoint, awaiting>>

MoveBackward(k) ==
    /\ move_backward(k)
    /\ ret' = NoValue
    /\ lastOp' = Call("move_backward", k)
    /\ pauseW' = None
    /\ shiftFromResume' = FALSE
    /\ scen' = IF scen = "fresh" /\ k <= stored_frames THEN "back" ELSE "other"
    /\ seekK' = IF scen = "fresh" /\ k <= stored_frames THEN k ELSE None
    /\ shiftBefore' = time_shift
    /\ noControl' = FALSE
    /\ UNCHANGED <<config, elsewhere, nextSample, cb_pc, cb_frames, pausePoint, awaiting>>

MoveForward(k) ==
    /\ move_forward(k)
    /\ ret' = NoValue
    /\ lastOp' = Call("move_forward", k)
    /\ pauseW' = None
    /\ scen' = "other"
    /\ seekK' = None
    /\ shiftBefore' = IF lastOp = Call("move_backward", k) THEN shiftBefore ELSE None
    /\ noControl' = FALSE
    /\ UNCHANGED <<config, elsewhere, nextSample, cb_pc, cb_frames, pausePoint, awaiting,
                   shiftFromResume>>

ResetToLive ==
    /\ reset_to_live
    /\ ret' = NoValue
    /\ lastOp' = Call("reset_to_live", 0)
    /\ pauseW' = None
    /\ shiftFromResume' = FALSE
    /\ scen' = "other"
    /\ seekK' = None
    /\ shiftBefore' = None
    /\ noControl' = FALSE
    /\ UNCHANGED <<config, elsewhere, nextSample, cb_pc, cb_frames, pausePoint, awaiting>>

Next ==
    \/ \E n \in WriteLens : Write(n)
    \/ \E n \in ReadLens : Read(n)
    \/ Pause
    \/ Resume
    \/ \E k \in SeekLens : MoveBackward(k)
    \/ \E k \in SeekLens : MoveForward(k)
    \/ ResetToLive

Spec == Init /\ [][Next]_vars

----------------------------------------------------------------------------
\* The program as FMRadio runs it: the audio callback writes the captured block
\* and then reads one block of the same size, every period; the button thread
\* calls the control methods between any two of the callback's calls.

\* config.BLOCKSIZE, in the units of the model
BlockSizes == {1, HalfSecond}

InitCadence ==
    /\ \E c \in Configs : InitBuffer(c) /\ InitElsewhere(c)
    /\ nextSample = 1
    /\ ret = NoValue
    /\ lastOp = Call("init", 0)
    /\ cb_pc = "idle"
    /\ cb_frames \in BlockSizes
    /\ InitHistory

\* FMRadio._audio_callback, first call: self.audio_buffer.write(indata.copy())
CallbackWrite ==
    /\ cb_pc = "idle"
    /\ nextSample - 1 + cb_frames <= buffer_size + MaxOver
    /\ write(Ramp(nextSample, cb_frames))
    /\ nextSample' = nextSample + cb_frames
    /\ ret' = NoValue
    /\ lastOp' = Call("write", cb_frames)
    /\ cb_pc' = "read"
    /\ UNCHANGED <<config, elsewhere, cb_frames, history>>

\* FMRadio._audio_callback, second call: self.audio_buffer.read(frames)
CallbackRead ==
    /\ cb_pc = "read"
    /\ read(cb_frames)
    /\ lastOp' = Call("read", cb_frames)
    /\ cb_pc' = "idle"
    /\ pausePoint' = IF playback_paused THEN pausePoint ELSE None
    /\ awaiting' = IF playback_paused THEN awaiting ELSE FALSE
    /\ UNCHANGED <<config, elsewhere, nextSample, cb_frames, apiHistory>>

\* FMRadio._on_play_pause: pause() when playing, resume() when paused
OnPlayPause ==
    /\ IF ~playback_paused
       THEN /\ pause
            /\ lastOp' = Call("pause", 0)
            /\ pausePoint' = IF lastOp.op = "read" /\ cb_pc = "idle"
                             THEN read_pos ELSE None
            /\ awaiting' = FALSE
       ELSE /\ resume
            /\ lastOp' = Call("resume", 0)
            /\ pausePoint' = pausePoint
            /\ awaiting' = (pausePoint # None /\ cb_pc = "idle")
    /\ ret' = NoValue
    /\ UNCHANGED <<config, elsewhere, nextSample, cb_pc, cb_frames, apiHistory>>

\* FMRadio._on_backward: move_backward(int(SAMPLE_RATE * 0.5))
OnBackward ==
    /\ move_backward(HalfSecond)
    /\ ret' = NoValue
    /\ lastOp' = Call("move_backward", HalfSecond)
    /\ pausePoint' = None
    /\ awaiting' = FALSE
    /\ UNCHANGED <<config, elsewhere, nextSample, cb_pc, cb_frames, apiHistory>>

\* FMRadio._on_forward: move_forward(int(SAMPLE_RATE * 0.5))
OnForward ==
    /\ move_forward(HalfSecond)
    /\ ret' = NoValue
    /\ lastOp' = Call("move_forward", HalfSecond)
    /\ pausePoint' = None
    /\ awaiting' = FALSE
    /\ UNCHANGED <<config, elsewhere, nextSample, cb_pc, cb_frames, apiHistory>>

\* FMRadio._on_live: reset_to_live()
OnLive ==
    /\ reset_to_live
    /\ ret' = NoValue
    /\ lastOp' = Call("reset_to_live", 0)
    /\ pausePoint' = None
    /\ awaiting' = FALSE
    /\ UNCHANGED <<config, elsewhere, nextSample, cb_pc, cb_frames, apiHistory>>

NextCadence ==
    \/ CallbackWrite
    \/ CallbackRead
    \/ OnPlayPause
    \/ OnBackward
    \/ OnForward
    \/ OnLive

SpecCadence == InitCadence /\ [][NextCadence]_vars

----------------------------------------------------------------------------
\* The telemetry queries.  The display and the button handlers call them from
\* their own threads, between any two calls of the audio callback.

\* A time in seconds: frame_count / sample_rate, kept as its numerator
Seconds(frame_count) == [kind |-> "seconds", frames |-> <<frame_count>>]
Bool(b) == [kind |-> "bool", frames |-> <<b>>]
\* int - None
TypeError == [kind |-> "TypeError", frames |-> <<>>]

get_remaining_buffer_time ==
    IF playback_paused
    THEN IF pause_position = None
         THEN TypeError
         ELSE Seconds((write_pos - pause_position) % buffer_size)
    ELSE Seconds(time_shift)

get_future_buffer_time == Seconds(stored_frames - time_shift)

get_buffer_time == Seconds(stored_frames)

get_delayed_time == Seconds(cumulative_shift)

Queries == {"is_live", "get_remaining_buffer_time", "get_future_buffer_time",
            "get_buffer_time", "get_delayed_time"}

QueryResult(q) ==
    CASE q = "is_live" -> Bool(is_live)
      [] q = "get_remaining_buffer_time" -> get_remaining_buffer_time
      [] q = "get_future_buffer_time" -> get_future_buffer_time
      [] q = "get_buffer_time" -> get_buffer_time
      [] q = "get_delayed_time" -> get_delayed_time

\* One telemetry call: it returns a value and assigns no field
Telemetry(q) ==
    /\ ret' = QueryResult(q)
    /\ lastOp' = Call(q, 0)
    /\ UNCHANGED <<config, elsewhere, fields, nextSample, cb_pc, cb_frames, history>>

\* The callback runs with blocks of half a second
InitTelemetry ==
    /\ InitCadence
    /\ cb_frames = HalfSecond

NextTelemetry ==
    \/ CallbackWrite
    \/ CallbackRead
    \/ OnPlayPause
    \/ OnBackward
    \/ OnForward
    \/ OnLive
    \/ \E q \in Queries : Telemetry(q)

SpecTelemetry == InitTelemetry /\ [][NextTelemetry]_vars

----------------------------------------------------------------------------
\* The buffer under its lock, statement by statement.  Every public method is
\* "with self.lock:" around its body: a thread enters when the lock is free,
\* runs the statements of the body one at a time, and leaves the lock when the
\* body returns or raises.  A producer writes, a consumer reads, the control
\* thread calls the control methods and the display thread the queries.

\* with self.lock, on entry, as it would be if the lock were not waited for
acquire_without_waiting(t) ==
    /\ lock' = t

\* with self.lock, on entry: the thread waits until no thread holds the lock
acquire(t) ==
    /\ lock = "free"
    /\ lock' = t

\* with self.lock, on exit: by return and by exception alike
release(t) ==
    /\ lock = t
    /\ lock' = "free"

goto(t, label) == pc' = [pc EXCEPT ![t] = label]

ControlOps == {"pause", "resume", "move_backward", "move_forward", "reset_to_live"}

\* A thread calls a method and takes the lock; entry is the first statement
Enter(t, entry) ==
    /\ pc[t] = "idle"
    /\ acquire(t)
    /\ goto(t, entry)
    /\ UNCHANGED <<config, fields, nextSample, ret, lastOp, cb_pc, cb_frames, history,
                   construction, unseeked, radio>>

EnterWrite ==
    /\ nextSample - 1 + cb_frames <= buffer_size + MaxOver
    /\ Enter("producer", "write_copy")

EnterRead == Enter("consumer", "read_copy")

EnterControl(op) == Enter("control", op)

EnterQuery(q) == Enter("display", q)

\* A thread leaves the method it is in
Exit(t) ==
    /\ pc[t] = "exit"
    /\ release(t)
    /\ goto(t, "idle")
    /\ UNCHANGED <<config, fields, nextSample, ret, lastOp, cb_pc, cb_frames, history,
                   construction, unseeked, radio>>

\* write, lines 33-40: the copy into the ring
WriteCopy ==
    /\ pc["producer"] = "write_copy"
    /\ buffer' = WrittenBuffer(Ramp(nextSample, cb_frames))
    /\ goto("producer", "write_pos")
    /\ UNCHANGED <<config, write_pos, read_pos, stored_frames, playback_paused,
                   pause_position, time_shift, cumulative_shift, nextSample, ret,
                   lastOp, cb_pc, cb_frames, history, construction, unseeked, lock, radio>>

\* write, lines 37 and 40: the new write position
WritePos ==
    /\ pc["producer"] = "write_pos"
    /\ write_pos' = WrittenPos(cb_frames)
    /\ goto("producer", "write_stored")
    /\ UNCHANGED <<config, buffer, read_pos, stored_frames, playback_paused,
                   pause_position, time_shift, cumulative_shift, nextSample, ret,
                   lastOp, cb_pc, cb_frames, history, construction, unseeked, lock, radio>>

\* write, line 42
WriteStored ==
    /\ pc["producer"] = "write_stored"
    /\ stored_frames' = Min(stored_frames + cb_frames, buffer_size)
    /\ goto("producer", "write_recompute")
    /\ UNCHANGED <<config, buffer, write_pos, read_pos, playback_paused,
                   pause_position, time_shift, cumulative_shift, nextSample, ret,
                   lastOp, cb_pc, cb_frames, history, construction, unseeked, lock, radio>>

\* write, lines 44-45, and the return
WriteRecompute ==
    /\ pc["producer"] = "write_recompute"
    /\ read_pos' = IF ~playback_paused /\ pause_position = None
                   THEN (write_pos - live_delay_frames - time_shift) % buffer_size
                   ELSE read_pos
    /\ nextSample' = nextSample + cb_frames
    /\ ret' = NoValue
    /\ lastOp' = Call("write", cb_frames)
    /\ goto("producer", "exit")
    /\ UNCHANGED <<config, buffer, write_pos, stored_frames, playback_paused,
                   pause_position, time_shift, cumulative_shift,
                   cb_pc, cb_frames, history, construction, unseeked, lock, radio>>

\* read, lines 49-60: silence when paused, else the copy out of the ring, which
\* raises when the ranges do not fit
ReadCopy ==
    /\ pc["consumer"] = "read_copy"
    /\ ret' = IF playback_paused THEN Frames(Zeros(cb_frames)) ELSE ReadOutput(cb_frames)
    /\ IF ~playback_paused /\ ReadOutput(cb_frames).kind = "frames"
       THEN goto("consumer", "read_advance") /\ lastOp' = lastOp
       ELSE goto("consumer", "exit") /\ lastOp' = Call("read", cb_frames)
    /\ UNCHANGED <<config, fields, nextSample, cb_pc, cb_frames, history,
                   construction, unseeked, lock, radio>>

\* read, lines 62-63
ReadAdvance ==
    /\ pc["consumer"] = "read_advance"
    /\ read_pos' = (read_pos + cb_frames) % buffer_size
    /\ lastOp' = Call("read", cb_frames)
    /\ goto("consumer", "exit")
    /\ UNCHANGED <<config, buffer, write_pos, stored_frames, playback_paused,
                   pause_position, time_shift, cumulative_shift, nextSample, ret,
                   cb_pc, cb_frames, history, construction, unseeked, lock, radio>>

\* pause, line 75
PauseFlag ==
    /\ pc["control"] = "pause"
    /\ playback_paused' = TRUE
    /\ goto("control", "pause_position")
    /\ UNCHANGED <<config, buffer, write_pos, read_pos, stored_frames,
                   pause_position, time_shift, cumulative_shift, nextSample, ret,
                   lastOp, cb_pc, cb_frames, history, construction, unseeked, lock, radio>>

\* pause, line 76, as it would be if the position were not captured
PausePosition_not_captured ==
    /\ pc["control"] = "pause_position"
    /\ pause_position' = pause_position
    /\ ret' = NoValue
    /\ lastOp' = Call("pause", 0)
    /\ goto("control", "exit")
    /\ UNCHANGED <<config, buffer, write_pos, read_pos, stored_frames,
                   playback_paused, time_shift, cumulative_shift, nextSample,
                   cb_pc, cb_frames, history, construction, unseeked, lock, radio>>

\* pause, line 76
PausePosition ==
    /\ pc["control"] = "pause_position"
    /\ pause_position' = (write_pos - live_delay_frames - time_shift) % buffer_size
    /\ ret' = NoValue
    /\ lastOp' = Call("pause", 0)
    /\ goto("control", "exit")
    /\ UNCHANGED <<config, buffer, write_pos, read_pos, stored_frames,
                   playback_paused, time_shift, cumulative_shift, nextSample,
                   cb_pc, cb_frames, history, construction, unseeked, lock, radio>>

\* The body of resume, move_backward, move_forward or reset_to_live
ControlBody ==
    /\ pc["control"] \in ControlOps \ {"pause"}
    /\ CASE pc["control"] = "resume" -> resume
         [] pc["control"] = "move_backward" -> move_backward(HalfSecond)
         [] pc["control"] = "move_forward" -> move_forward(HalfSecond)
         [] pc["control"] = "reset_to_live" -> reset_to_live
    /\ ret' = NoValue
    /\ lastOp' = Call(pc["control"], 0)
    /\ goto("control", "exit")
    /\ UNCHANGED <<config, nextSample, cb_pc, cb_frames, history, construction, unseeked,
                   lock, radio>>

\* The body of a telemetry query
QueryBody ==
    /\ pc["display"] \in Queries
    /\ ret' = QueryResult(pc["display"])
    /\ lastOp' = Call(pc["display"], 0)
    /\ goto("display", "exit")
    /\ UNCHANGED <<config, fields, nextSample, cb_pc, cb_frames, history,
                   construction, unseeked, lock, radio>>

InitLock ==
    /\ InitCadence
    /\ cb_frames = HalfSecond

NextLock ==
    \/ EnterWrite
    \/ WriteCopy
    \/ WritePos
    \/ WriteStored
    \/ WriteRecompute
    \/ EnterRead
    \/ ReadCopy
    \/ ReadAdvance
    \/ \E op \in ControlOps : EnterControl(op)
    \/ PauseFlag
    \/ PausePosition
    \/ ControlBody
    \/ \E q \in Queries : EnterQuery(q)
    \/ QueryBody
    \/ \E t \in Threads : Exit(t)

SpecLock == InitLock /\ [][NextLock]_vars

----------------------------------------------------------------------------
\* The derived read position of the specification: (W - delay - shift) mod N
DerivedReadPos == (write_pos - live_delay_frames - time_shift) % buffer_size

\* The frames stored in the n slots from index `from` on, wrapping
Stored(from, n) == [i \in 1 .. n |-> buffer[(from + i - 1) % buffer_size]]

\* C1 (as claimed): pause() in a non-paused state, writes totalling W frames with
\* no other control call, then resume(): time_shift = W mod N.  pauseW holds
\* W mod N while that history is the current one.
C1_ResumeShiftIsFramesWritten ==
    [][(lastOp'.op = "resume" /\ pauseW # None) => time_shift' = pauseW]_vars

\* C2 (as claimed): pause() immediately followed by resume() leaves read_pos
\* as it was before the pause (pause itself does not touch read_pos, so the
\* value before the resume step is the value before the pause).
C2_PauseResumeKeepsReadPos ==
    [][(lastOp.op = "pause" /\ lastOp'.op = "resume") => read_pos' = read_pos]_vars

\* C3 (as claimed): 0 <= time_shift <= min(stored_frames, past_frames) always.
C3_ShiftWithinHistory ==
    0 <= time_shift /\ time_shift <= Min(stored_frames, past_frames)

\* C3 (amended): 0 <= time_shift <= N - 1 always, and time_shift is at most
\* min(stored_frames, past_frames) unless it was last set by resume().
C3_ShiftWithinHistoryUnlessResumed ==
    /\ 0 <= time_shift
    /\ time_shift <= buffer_size - 1
    /\ ~shiftFromResume => time_shift <= Min(stored_frames, past_frames)

C3_Witness ==
    /\ lastOp.op = "move_backward"
    /\ lastOp.n > past_frames
    /\ stored_frames > past_frames
    /\ time_shift = past_frames

C5_ResumeContinuesAtPausePoint ==
    [][(awaiting /\ lastOp'.op = "read" /\ ~playback_paused)
        => read_pos = pausePoint]_vars

\* C6 (as claimed): pause() sets pause_position to the read_pos of the moment,
\* and while paused read_pos equals pause_position.
C6_PauseCapturesReadPos ==
    [][/\ lastOp'.op = "pause" => pause_position' = read_pos
       /\ playback_paused' => read_pos' = pause_position']_vars

\* C7 (as claimed): in every non-paused state read_pos is the derived position.
C7_ReadPosIsDerived ==
    ~playback_paused => read_pos = DerivedReadPos

\* C7 (amended): read_pos is the derived position in every non-paused state
\* whose most recent call is write, move_backward, move_forward or reset_to_live.
C7_ReadPosIsDerivedAfterRecompute ==
    (~playback_paused
        /\ lastOp.op \in {"write", "move_backward", "move_forward", "reset_to_live"})
        => read_pos = DerivedReadPos

C7_Witness ==
    /\ ~playback_paused
    /\ lastOp.op = "write"
    /\ lastOp.n > 0
    /\ time_shift > 0
    /\ live_delay_frames > 0
    /\ read_pos = DerivedReadPos

\* C8 (as claimed): read(frameCount) returns exactly frameCount frames in every
\* state and for every frameCount >= 0; it never fails.
C8_ReadReturnsFrameCount ==
    lastOp.op = "read" => (ret.kind = "frames" /\ Len(ret.frames) = lastOp.n)

\* C9: a read of n <= N frames in a non-paused state returns the stored
\* frames at (read_pos + i) mod N, i in [0, n), advances read_pos by n mod N
\* and changes nothing else.
C9_ReadCopiesAndAdvances ==
    [][(lastOp'.op = "read" /\ ~playback_paused /\ lastOp'.n <= buffer_size)
        => /\ ret' = Frames(Stored(read_pos, lastOp'.n))
           /\ read_pos' = (read_pos + lastOp'.n) % buffer_size
           /\ UNCHANGED <<buffer, write_pos, stored_frames, time_shift,
                          cumulative_shift, playback_paused, pause_position>>]_vars

\* a read that wrapped past the end of the array and returned written frames
C9_Witness ==
    /\ lastOp.op = "read"
    /\ ~playback_paused
    /\ lastOp.n <= buffer_size
    /\ 0 < read_pos /\ read_pos < lastOp.n
    /\ ret.kind = "frames"
    /\ \E i \in 1 .. Len(ret.frames) : ret.frames[i] # 0

\* C10: a read while paused returns n frames of silence and changes no field.
C10_PausedReadIsSilentAndInert ==
    [][(lastOp'.op = "read" /\ playback_paused)
        => /\ ret' = Frames(Zeros(lastOp'.n))
           /\ UNCHANGED fields]_vars

\* a paused read of n > 0 frames at a position that holds written audio
C10_Witness ==
    /\ lastOp.op = "read"
    /\ playback_paused
    /\ lastOp.n > 0
    /\ buffer[read_pos] # 0
    /\ ret = Frames(Zeros(lastOp.n))

----------------------------------------------------------------------------
\* C11: a write of len <= N frames stores frame i at index (WritePosition + i)
\* mod N for every i, leaves every other slot as it was, moves WritePosition to
\* (WritePosition + len) mod N and sets StoredFrames to min(StoredFrames + len,
\* N); and no operation ever decreases StoredFrames.
C11_WriteStoresAtWritePosition ==
    [][/\ lastOp'.op = "write" /\ lastOp'.n <= buffer_size =>
            LET len == lastOp'.n
                written == {(write_pos + i) % buffer_size : i \in 0 .. len - 1}
            IN  /\ \A i \in 0 .. len - 1 :
                       buffer'[(write_pos + i) % buffer_size] = nextSample + i
                /\ \A s \in (0 .. buffer_size - 1) \ written : buffer'[s] = buffer[s]
                /\ write_pos' = (write_pos + len) % buffer_size
                /\ stored_frames' = Min(stored_frames + len, buffer_size)
       /\ stored_frames' >= stored_frames]_vars

\* a write that was split at the end of the ring has happened
C11_Witness ==
    /\ lastOp.op = "write"
    /\ 0 < write_pos /\ write_pos < lastOp.n
    /\ buffer[write_pos - 1] = nextSample - 1
    /\ stored_frames = buffer_size

\* C12: a write in a non-paused state leaves (WritePosition - ReadPosition) mod N
\* equal to (LiveDelayFrames + TimeShiftFrames) mod N and does not change
\* TimeShiftFrames, wherever the reads before it left the read position; a
\* write in the paused state changes neither ReadPosition, PausePosition nor
\* TimeShiftFrames.
C12_WriteKeepsLag ==
    [][lastOp'.op = "write" =>
          /\ time_shift' = time_shift
          /\ IF playback_paused
             THEN read_pos' = read_pos /\ pause_position' = pause_position
             ELSE (write_pos' - read_pos') % buffer_size
                      = (live_delay_frames + time_shift') % buffer_size]_vars

\* a write has put a read position that reads had moved away back at its lag
C12_Witness ==
    /\ lastOp.op = "write"
    /\ lastOp.n > 0
    /\ ~playback_paused
    /\ time_shift > 0
    /\ live_delay_frames > 0
    /\ write_pos < read_pos
    /\ (write_pos - read_pos) % buffer_size = live_delay_frames + time_shift

\* C13: move_backward(k), for every k >= 0 however large, returns normally and
\* leaves TimeShiftFrames <= min(StoredFrames, PastCapacityFrames); a seek far
\* larger than the buffer yields exactly min(StoredFrames, PastCapacityFrames),
\* and the positions stay in [0, N).
C13_BackwardSeekIsClamped ==
    lastOp.op = "move_backward" =>
        /\ ret = NoValue
        /\ time_shift <= Min(stored_frames, past_frames)
        /\ lastOp.n = HugeSeek => time_shift = Min(stored_frames, past_frames)
        /\ write_pos \in 0 .. buffer_size - 1
        /\ read_pos \in 0 .. buffer_size - 1

\* a huge seek on a buffer that holds less than the past capacity
C13_Witness ==
    /\ lastOp = Call("move_backward", HugeSeek)
    /\ 0 < stored_frames /\ stored_frames < past_frames
    /\ time_shift = stored_frames
    /\ ~playback_paused

\* C14: move_forward(k), for every k >= 0 and from every reachable state, leaves
\* TimeShiftFrames equal to max(0, previous TimeShiftFrames - k), which is >= 0.
C14_ForwardSeekFloorsAtZero ==
    [][lastOp'.op = "move_forward" =>
          /\ time_shift' = Max(0, time_shift - lastOp'.n)
          /\ time_shift' >= 0]_vars

\* a forward seek of half a second that left part of the shift in place
C14_Witness ==
    /\ lastOp = Call("move_forward", HalfSecond)
    /\ HalfSecond > 0
    /\ time_shift > 0
    /\ ~playback_paused
    /\ read_pos = DerivedReadPos

C16_ResetToLive ==
    [][lastOp'.op = "reset_to_live" =>
          /\ is_live'
          /\ ~playback_paused'
          /\ pause_position' = None
          /\ time_shift' = 0
          /\ read_pos' = (write_pos' - live_delay_frames) % buffer_size
          /\ UNCHANGED <<buffer, write_pos, stored_frames>>]_vars

\* a reset_to_live on a filled buffer, the reader one live delay behind the writer
C16_Witness ==
    /\ lastOp.op = "reset_to_live"
    /\ is_live
    /\ stored_frames = buffer_size
    /\ live_delay_frames > 0
    /\ read_pos # write_pos
    /\ pause_position = None

\* C17: as long as only writes and reads have been made and the write lengths
\* total at most N, StoredFrames equals the sum of the write lengths and
\* is_live() is true.
C17_StoredIsSumOfWrites ==
    (noControl /\ nextSample - 1 <= buffer_size) =>
        /\ stored_frames = nextSample - 1
        /\ is_live

\* writes that fill the ring exactly, with a successful read after the last one
C17_Witness ==
    /\ noControl
    /\ nextSample - 1 = buffer_size
    /\ stored_frames = buffer_size
    /\ lastOp.op = "read"
    /\ lastOp.n > 0
    /\ ret.kind = "frames"
    /\ is_live

\* C18: in every reachable state WritePosition and ReadPosition are in [0, N),
\* and PausePosition, when present, is in [0, N).
C18_PositionsInRange ==
    /\ write_pos \in 0 .. buffer_size - 1
    /\ read_pos \in 0 .. buffer_size - 1
    /\ pause_position # None => pause_position \in 0 .. buffer_size - 1

\* a pause taken after the writer has wrapped, its position wrapped below zero
C18_Witness ==
    /\ playback_paused
    /\ pause_position # None
    /\ pause_position > write_pos
    /\ read_pos > write_pos
    /\ nextSample - 1 > buffer_size
    /\ lastOp.op = "pause"

\* C19: in every reachable state PausePosition is present exactly when
\* PlaybackPaused is true.
C19_PausePositionIffPaused ==
    (pause_position # None) <=> playback_paused

\* a paused buffer has been resumed, after writes made during the pause
C19_Witness ==
    /\ lastOp.op = "resume"
    /\ shiftFromResume
    /\ time_shift > live_delay_frames
    /\ ~playback_paused
    /\ pause_position = None

\* C20: only write changes the stored samples, WritePosition or StoredFrames;
\* pause, resume, move_backward, move_forward, reset_to_live, read and every
\* telemetry query leave all three unchanged.
C20_OnlyWriteChangesStorage ==
    [][lastOp'.op # "write" => UNCHANGED <<buffer, write_pos, stored_frames>>]_vars

\* a telemetry query answered during a pause, on a ring that has been filled
C20_Witness ==
    /\ lastOp.op = "get_remaining_buffer_time"
    /\ ret.kind = "seconds"
    /\ ret.frames[1] > 0
    /\ playback_paused
    /\ stored_frames = buffer_size
    /\ write_pos > 0

----------------------------------------------------------------------------
\* The steps a thread takes inside a method, the lock in hand
BodyStep ==
    \/ WriteCopy
    \/ WritePos
    \/ WriteStored
    \/ WriteRecompute
    \/ ReadCopy
    \/ ReadAdvance
    \/ PauseFlag
    \/ PausePosition
    \/ ControlBody
    \/ QueryBody
    \/ \E t \in Threads : Exit(t)

\* The write position and the stored count are those of the frames written
CommittedWrite ==
    /\ write_pos = (nextSample - 1) % buffer_size
    /\ stored_frames = Min(nextSample - 1, buffer_size)
    /\ nextSample > 1 => buffer[(write_pos - 1) % buffer_size] = nextSample - 1

\* C21: every public operation runs under the single lock: a thread is inside
\* a method body only while it holds the lock, the lock is held only by a
\* thread that is inside a body (it is released on every exit path), a read in
\* progress sees only completed writes, and in every state some thread can
\* take a step (no deadlock).
C21_OperationsAreAtomic ==
    /\ \A t \in Threads : pc[t] # "idle" => lock = t
    /\ lock # "free" => pc[lock] # "idle"
    /\ pc["consumer"] \in {"read_copy", "read_advance"} =>
           /\ pc["producer"] = "idle"
           /\ CommittedWrite
    /\ IF lock = "free" THEN ENABLED EnterRead ELSE ENABLED BodyStep

\* the consumer is inside a read of a ring the producer has filled past its end
C21_Witness ==
    /\ lock = "consumer"
    /\ pc["consumer"] = "read_advance"
    /\ ret.kind = "frames"
    /\ cb_frames > 0
    /\ nextSample - 1 > buffer_size
    /\ ~playback_paused

----------------------------------------------------------------------------
\* C22: in a non-paused state with 0 < StoredFrames < PastCapacityFrames, after
\* move_backward(k) with k >= StoredFrames the read position is the index of
\* the oldest written frame, (WritePosition - StoredFrames) mod N.
C22_RewindStopsAtOldestFrame ==
    (/\ lastOp.op = "move_backward"
     /\ ~playback_paused
     /\ 0 < stored_frames /\ stored_frames < past_frames
     /\ lastOp.n >= stored_frames)
        => read_pos = (write_pos - stored_frames) % buffer_size

\* C23: in every reachable state the separately stored cumulative_shift equals
\* time_shift, so get_delayed_time() reports TimeShiftFrames / sampleRate.
C23_DelayedTimeIsTimeShift ==
    /\ cumulative_shift = time_shift
    /\ get_delayed_time = Seconds(time_shift)

\* a backward seek made during a pause has set both fields
C23_Witness ==
    /\ lastOp.op = "move_backward"
    /\ playback_paused
    /\ cumulative_shift > 0
    /\ get_delayed_time = Seconds(time_shift)

----------------------------------------------------------------------------
\* The constructor called with arguments of either sign, and the first calls
\* made on what it returns.

\* past_seconds, future_seconds, sample_rate and channels as a caller may pass them
CtorArgs ==
    [past_seconds : {-1, 0, 1}, future_seconds : {-1, 0, 1},
     sample_rate : {-1, 0, 1, 3}, channels : {-1, 0, 1}]

ZeroDivisionError == [kind |-> "ZeroDivisionError", frames |-> <<>>]

\* TimeShiftBuffer.__init__: the only statement that can raise is np.zeros, on
\* a negative dimension; no argument is checked
Constructed(c) ==
    IF (c.past_seconds + c.future_seconds) * c.sample_rate < 0 \/ c.channels < 0
    THEN "ValueError"
    ELSE "ok"

InitConstruct ==
    /\ \E c \in CtorArgs :
          /\ InitBuffer(c)
          /\ ctor_args = c
          /\ built = Constructed(c)
    /\ lock = "free"
    /\ pc = [t \in Threads |-> "idle"]
    /\ InitRadio
    /\ nextSample = 1
    /\ ret = NoValue
    /\ lastOp = Call("init", 0)
    /\ cb_pc = "idle"
    /\ cb_frames = 0
    /\ InitHistory

\* write on the buffer the constructor returned.  With N = 0 a write of no
\* frame stops at the modulo of line 40; a write of one frame takes the
\* wrapping branch, sets write_pos to 1 and stops at the modulo of line 45.
FirstWrite(n) ==
    /\ built = "ok"
    /\ nextSample - 1 + n <= buffer_size + MaxOver
    /\ IF buffer_size = 0
       THEN /\ ret' = ZeroDivisionError
            /\ write_pos' = IF n > 0 THEN n ELSE write_pos
            /\ UNCHANGED <<buffer, read_pos, stored_frames, playback_paused,
                           pause_position, time_shift, cumulative_shift>>
       ELSE /\ write(Ramp(nextSample, n))
            /\ ret' = NoValue
    /\ nextSample' = nextSample + n
    /\ lastOp' = Call("write", n)
    /\ UNCHANGED <<config, elsewhere, cb_pc, cb_frames, history>>

\* read on the buffer the constructor returned.  With N = 0 the copy of one
\* frame does not fit, and a read of no frame stops at the modulo of line 62.
FirstRead(n) ==
    /\ built = "ok"
    /\ IF buffer_size = 0
       THEN /\ ret' = IF n > 0 THEN ValueError ELSE ZeroDivisionError
            /\ UNCHANGED fields
       ELSE read(n)
    /\ lastOp' = Call("read", n)
    /\ UNCHANGED <<config, elsewhere, nextSample, cb_pc, cb_frames, history>>

\* pause on the buffer the constructor returned.  With N = 0 it stops at the
\* modulo of line 76, playback_paused already set.
FirstPause ==
    /\ built = "ok"
    /\ IF buffer_size = 0
       THEN /\ ret' = ZeroDivisionError
            /\ playback_paused' = TRUE
            /\ UNCHANGED <<buffer, write_pos, read_pos, stored_frames,
                           pause_position, time_shift, cumulative_shift>>
       ELSE /\ pause
            /\ ret' = NoValue
    /\ lastOp' = Call("pause", 0)
    /\ UNCHANGED <<config, elsewhere, nextSample, cb_pc, cb_frames, history>>

NextConstruct ==
    \/ \E n \in {0, 1} : FirstWrite(n)
    \/ \E n \in {0, 1} : FirstRead(n)
    \/ FirstPause

SpecConstruct == InitConstruct /\ [][NextConstruct]_vars

\* C25: constructing the buffer with a non-positive pastSeconds, futureSeconds,
\* sampleRate or channelCount fails at construction, and no buffer of capacity
\* N <= 0 is returned.
C25_ConstructorRejectsNonPositive ==
    /\ (\/ ctor_args.past_seconds <= 0
        \/ ctor_args.future_seconds <= 0
        \/ ctor_args.sample_rate <= 0
        \/ ctor_args.channels <= 0) => built # "ok"
    /\ built = "ok" => buffer_size > 0

\* C24: a telemetry query, called by its own thread at any point between the
\* calls of the other threads, changes no field of the buffer and returns a
\* value: get_remaining_buffer_time never finds PausePosition absent while
\* paused.
C24_QueriesAreReadOnly ==
    [][pc'["display"] # pc["display"] =>
          /\ UNCHANGED <<config, fields>>
          /\ pc'["display"] = "exit" => ret'.kind \in {"seconds", "bool"}]_vars

\* the display thread has been answered a paused lag above the live delay
C24_Witness ==
    /\ lock = "display"
    /\ pc["display"] = "exit"
    /\ lastOp.op = "get_remaining_buffer_time"
    /\ playback_paused
    /\ ret.kind = "seconds"
    /\ ret.frames[1] > live_delay_frames

----------------------------------------------------------------------------
\* C26: in every non-paused state right after a write, a read of n frames with
\* n <= LiveDelayFrames returns only slots behind the write position:
\* (WritePosition - ReadPosition) mod N >= n.
C26_ReaderStaysBehindWriter ==
    (lastOp.op = "write" /\ ~playback_paused) =>
        \A n \in 0 .. live_delay_frames : (write_pos - read_pos) % buffer_size >= n

----------------------------------------------------------------------------
\* C27: pause() called on a buffer that is already paused leaves PausePosition,
\* TimeShiftFrames and ReadPosition unchanged.
C27_PauseIsIdempotent ==
    [][lastOp'.op = "pause_again" =>
          UNCHANGED <<pause_position, time_shift, read_pos>>]_vars

----------------------------------------------------------------------------
\* The buffer beside the shadow of a pause in which no seek is made: unseeked
\* holds the shift and the pause position that the same calls, the seeks made
\* during the pause left out, would have produced.  Blocks and seeks are of
\* half a second.

ShadowWrite ==
    /\ nextSample - 1 + HalfSecond <= buffer_size + MaxOver
    /\ write(Ramp(nextSample, HalfSecond))
    /\ nextSample' = nextSample + HalfSecond
    /\ ret' = NoValue
    /\ lastOp' = Call("write", HalfSecond)
    /\ UNCHANGED <<config, cb_pc, cb_frames, history, construction, locking, radio,
                   unseeked>>

ShadowRead ==
    /\ read(HalfSecond)
    /\ lastOp' = Call("read", HalfSecond)
    /\ UNCHANGED <<config, nextSample, cb_pc, cb_frames, history, construction,
                   locking, radio, unseeked>>

\* pause(): the shadow pauses too, from its own shift
ShadowPause ==
    /\ pause
    /\ ret' = NoValue
    /\ lastOp' = Call(IF playback_paused THEN "pause_again" ELSE "pause", 0)
    /\ unseeked' = LET shift == IF playback_paused THEN unseeked.time_shift ELSE time_shift
                   IN  [time_shift |-> shift,
                        pause_position |->
                            (write_pos - live_delay_frames - shift) % buffer_size]
    /\ UNCHANGED <<config, nextSample, cb_pc, cb_frames, history, construction,
                   locking, radio>>

ShadowResume ==
    /\ resume
    /\ ret' = NoValue
    /\ lastOp' = Call("resume", 0)
    /\ unseeked' = NoShadow
    /\ UNCHANGED <<config, nextSample, cb_pc, cb_frames, history, construction,
                   locking, radio>>

\* a seek: the shadow makes it only when not paused, where it has no pause to shadow
ShadowBackward ==
    /\ move_backward(HalfSecond)
    /\ ret' = NoValue
    /\ lastOp' = Call("move_backward", HalfSecond)
    /\ UNCHANGED <<config, nextSample, cb_pc, cb_frames, history, construction,
                   locking, radio, unseeked>>

ShadowForward ==
    /\ move_forward(HalfSecond)
    /\ ret' = NoValue
    /\ lastOp' = Call("move_forward", HalfSecond)
    /\ UNCHANGED <<config, nextSample, cb_pc, cb_frames, history, construction,
                   locking, radio, unseeked>>

ShadowLive ==
    /\ reset_to_live
    /\ ret' = NoValue
    /\ lastOp' = Call("reset_to_live", 0)
    /\ unseeked' = NoShadow
    /\ UNCHANGED <<config, nextSample, cb_pc, cb_frames, history, construction,
                   locking, radio>>

NextShadow ==
    \/ ShadowWrite
    \/ ShadowRead
    \/ ShadowPause
    \/ ShadowResume
    \/ ShadowBackward
    \/ ShadowForward
    \/ ShadowLive

SpecShadow == Init /\ [][NextShadow]_vars

\* C28: move_backward and move_forward called in the paused state change only
\* TimeShiftFrames and the reported delay, never ReadPosition or PausePosition,
\* and the next resume() produces the TimeShiftFrames and ReadPosition it
\* would have produced had those seeks not been called.
C28_PausedSeeksDoNotSurviveResume ==
    [][/\ (playback_paused /\ lastOp'.op \in {"move_backward", "move_forward"}) =>
              UNCHANGED <<read_pos, pause_position, buffer, write_pos, stored_frames,
                          playback_paused>>
       /\ (playback_paused /\ lastOp'.op = "resume") =>
              /\ read_pos' = unseeked.pause_position
              /\ time_shift' = (write_pos - unseeked.pause_position) % buffer_size]_vars

----------------------------------------------------------------------------
\* C29: while paused, each write of n frames makes the paused lag reported by
\* get_remaining_buffer_time, (WritePosition - PausePosition) mod N frames,
\* grow by exactly n, whatever the total written during the pause.
C29_PausedLagGrowsWithWrites ==
    [][(playback_paused /\ lastOp'.op = "write") =>
          /\ get_remaining_buffer_time' =
                 Seconds((write_pos' - pause_position') % buffer_size)
          /\ (write_pos' - pause_position') % buffer_size
                 = ((write_pos - pause_position) % buffer_size) + lastOp'.n]_vars

----------------------------------------------------------------------------
\* Radio.set_frequency, frequencies in tenths of MHz.

\* The frequencies a caller may ask for: around both ends of the band and
\* around the default frequency
Requests == (868 .. 882) \cup (995 .. 1004) \cup (1073 .. 1087)

\* max(87.5, min(freq, 108.0))
Bounded(freq) == Max(875, Min(freq, 1080))

\* Lines 35-39: a frequency whose tenths digit is not 1, 3, 5, 7 or 9 takes the
\* nearest of these digits and keeps its integer part; as the floats fall, the
\* digits 0, 2 and 4 go up by one and the digits 6 and 8 go down by one
ValidStep(freq) ==
    CASE freq % 10 \in {1, 3, 5, 7, 9} -> freq
      [] freq % 10 \in {0, 2, 4} -> freq + 1
      [] freq % 10 \in {6, 8} -> freq - 1

\* FrequencyPersistence.load_frequency
load_frequency ==
    IF saved_frequency = None
    THEN None
    ELSE IF 875 <= saved_frequency /\ saved_frequency <= 1080
         THEN saved_frequency
         ELSE None

\* Radio.set_frequency: the frequency is stored before the tuner is written,
\* and saved when stabilize is set
set_frequency(freq, stabilize) ==
    /\ frequency' = ValidStep(Bounded(freq))
    /\ saved_frequency' = IF stabilize THEN ValidStep(Bounded(freq)) ELSE saved_frequency

SetFrequency(freq, stabilize) ==
    /\ set_frequency(freq, stabilize)
    /\ ret' = NoValue
    /\ lastOp' = Call("set_frequency", freq)
    /\ UNCHANGED <<config, fields, nextSample, cb_pc, cb_frames, history, construction,
                   locking, unseeked, tuning>>

NextRadio == \E freq \in Requests, stabilize \in BOOLEAN : SetFrequency(freq, stabilize)

SpecRadio == Init /\ [][NextRadio]_vars

\* C30: after set_frequency(f), for any requested f, the stored Radio.frequency
\* lies within [87.5, 108.0] MHz, and a frequency it saved is one that
\* load_frequency accepts.
C30_FrequencyIsBounded ==
    lastOp.op = "set_frequency" =>
        /\ 875 <= frequency /\ frequency <= 1080
        /\ saved_frequency # None => load_frequency = saved_frequency

----------------------------------------------------------------------------
\* Radio.adjust_frequency, statement by statement: the rotary thread calls it,
\* and every threading.Timer it starts is a thread of its own.  A Timer waits
\* for its interval ("waiting"), then runs stabilized_callback unless cancel()
\* was called before the wait ended; cancel() does nothing to a Timer whose
\* callback has started.

\* How many times adjust_frequency is called
MaxCalls == 3

\* FREQUENCY_STEP, in tenths of MHz
FREQUENCY_STEP == 2

\* The values the rotary encoder reports
Deltas == {-1, 1}

\* Thread.is_alive: the Timer thread was started and has not ended
is_alive(i) == timers[i].state \notin {"cancelled", "finished"}

\* Timer.cancel: sets the finished event, which only a Timer still waiting
\* for its interval looks at
cancel(i) ==
    timers' = [timers EXCEPT ![i].state = IF @ = "waiting" THEN "cancelled" ELSE @]

\* What the steps of adjust_frequency and of the Timers leave alone
untuned == <<config, fields, nextSample, ret, lastOp, cb_pc, cb_frames, history,
             construction, locking, unseeked>>

\* FMRadio._on_rotary when not paused, and lines 81-82 of adjust_frequency:
\* the previous timer is cancelled if it is still alive
AdjustCancel(delta) ==
    /\ rotary.pc = "idle"
    /\ ~playback_paused
    /\ Len(timers) < MaxCalls
    /\ IF stabilization_timer # None /\ is_alive(stabilization_timer)
       THEN cancel(stabilization_timer)
       ELSE UNCHANGED timers
    /\ rotary' = [pc |-> "compute", delta |-> delta, new_freq |-> None]
    /\ UNCHANGED <<frequency, saved_frequency, stabilization_timer, untuned>>

\* Line 85: new_freq = self.frequency + delta * FREQUENCY_STEP
AdjustCompute ==
    /\ rotary.pc = "compute"
    /\ rotary' = [rotary EXCEPT !.pc = "set",
                                !.new_freq = frequency + rotary.delta * FREQUENCY_STEP]
    /\ UNCHANGED <<frequency, saved_frequency, stabilization_timer, timers, untuned>>

\* Line 86: set_frequency(new_freq, stabilize=False)
AdjustSet ==
    /\ rotary.pc = "set"
    /\ set_frequency(rotary.new_freq, FALSE)
    /\ rotary' = [rotary EXCEPT !.pc = "start"]
    /\ UNCHANGED <<stabilization_timer, timers, untuned>>

\* Lines 95-96: a new Timer holding new_freq is stored and started
AdjustStart ==
    /\ rotary.pc = "start"
    /\ timers' = Append(timers, [state |-> "waiting", new_freq |-> rotary.new_freq])
    /\ stabilization_timer' = Len(timers) + 1
    /\ rotary' = [pc |-> "idle", delta |-> 0, new_freq |-> None]
    /\ UNCHANGED <<frequency, saved_frequency, untuned>>

\* The interval of Timer i ends with its finished event not set: the Timer
\* goes on to call stabilized_callback
TimerFire(i) ==
    /\ timers[i].state = "waiting"
    /\ timers' = [timers EXCEPT ![i].state = "fired"]
    /\ UNCHANGED <<frequency, saved_frequency, stabilization_timer, rotary, untuned>>

\* Line 90 as far as line 62: set_frequency(new_freq, stabilize=True) stores
\* the frequency (line 41), writes the tuner and sleeps
TimerStore(i) ==
    /\ timers[i].state = "fired"
    /\ frequency' = ValidStep(Bounded(timers[i].new_freq))
    /\ timers' = [timers EXCEPT ![i].state = "stabilizing"]
    /\ UNCHANGED <<saved_frequency, stabilization_timer, rotary, untuned>>

\* Lines 69-70: after the sleep set_frequency saves the frequency it stored
TimerSave(i) ==
    /\ timers[i].state = "stabilizing"
    /\ saved_frequency' = ValidStep(Bounded(timers[i].new_freq))
    /\ timers' = [timers EXCEPT ![i].state = "saved"]
    /\ UNCHANGED <<frequency, stabilization_timer, rotary, untuned>>

\* Lines 92-93: stabilized_callback saves new_freq as adjust_frequency
\* computed it, and the Timer thread ends
TimerCommit(i) ==
    /\ timers[i].state = "saved"
    /\ saved_frequency' = timers[i].new_freq
    /\ timers' = [timers EXCEPT ![i].state = "finished"]
    /\ UNCHANGED <<frequency, stabilization_timer, rotary, untuned>>

NextTune ==
    \/ \E delta \in Deltas : AdjustCancel(delta)
    \/ AdjustCompute
    \/ AdjustSet
    \/ AdjustStart
    \/ \E i \in 1 .. Len(timers) : TimerFire(i)
    \/ \E i \in 1 .. Len(timers) : TimerStore(i)
    \/ \E i \in 1 .. Len(timers) : TimerSave(i)
    \/ \E i \in 1 .. Len(timers) : TimerCommit(i)

SpecTune == Init /\ [][NextTune]_vars

\* Timer i was superseded: a later adjust_frequency call has stored its
\* frequency
Superseded(i) == i < Len(timers) \/ (i = Len(timers) /\ rotary.pc = "start")

\* No adjust_frequency call in progress, no Timer waiting or running
Settled ==
    /\ rotary.pc = "idle"
    /\ timers # <<>>
    /\ \A i \in 1 .. Len(timers) : ~is_alive(i)

\* C31: once no timer is pending or running, Radio.frequency is the frequency
\* the last adjust_frequency call computed, and the callback of a timer that a
\* later call superseded never changes the frequency that call stored.
C31_TuningIsDebounced ==
    [][/\ Settled' => frequency' = ValidStep(Bounded(timers'[Len(timers')].new_freq))
       /\ \A i \in 1 .. Len(timers) :
             (Superseded(i) /\ timers[i].state = "fired"
                  /\ timers'[i].state = "stabilizing") => frequency' = frequency]_vars

====
